---- MODULE Spec2Model ----
(***************************************************************************)
(* Transaction engine: Engine::process folds a slice of Transactions over  *)
(* an AccountsRepository (HashMap<u16, Account>) and a TransactionLedger   *)
(* (HashMap<u32, Transaction>).  Balances are f64 in the source; they are  *)
(* modelled as the exact binary64 values  k * 2^53 + d  (k, d integers, d  *)
(* small), with addition and subtraction rounded to nearest, ties to even, *)
(* exactly as binary64 rounds them in that range.                          *)
(***************************************************************************)
EXTENDS Integers, FiniteSets, Sequences, TLC

(***************************************************************************)
(* Bounds of the model.                                                    *)
(***************************************************************************)
MaxSteps == 4

\* The client ids (u16) and transaction ids (u32) the instructions carry.
ClientIds == {1, 2}
TxIds == {1, 2}

\* The keys the ledger's map can hold in a run of the model.
LedgerIds == {1, 2, 3}

(***************************************************************************)
(* binary64 values of the form k * 2^53 + d.                               *)
(***************************************************************************)
F(k, d) == [k |-> k, d |-> d]

Zero == F(0, 0)

RECURSIVE FloorLog2(_)
FloorLog2(k) == IF k <= 1 THEN 0 ELSE 1 + FloorLog2(k \div 2)

IsPow2(k) == k = 2 ^ FloorLog2(k)

\* Distance between neighbouring binary64 values at k * 2^53 + d, k >= 0:
\* 2^(e-52) for a value in [2^e, 2^(e+1)); every integer below 2^53 is exact.
Spacing(k, d) ==
    IF k = 0 THEN 1
    ELSE IF IsPow2(k) /\ d < 0 THEN 2 ^ FloorLog2(k)
    ELSE 2 ^ (FloorLog2(k) + 1)

\* d rounded to a multiple of s, to nearest, ties to the even multiple.
RoundHalfEven(d, s) ==
    LET q == d \div s
        r == d % s
    IN  IF 2 * r < s THEN q * s
        ELSE IF 2 * r > s THEN (q + 1) * s
        ELSE IF q % 2 = 0 THEN q * s
        ELSE (q + 1) * s

\* The binary64 value nearest to the real number k * 2^53 + d.
FRound(k, d) ==
    IF k >= 0
    THEN F(k, RoundHalfEven(d, Spacing(k, d)))
    ELSE F(k, -RoundHalfEven(-d, Spacing(-k, -d)))

\* f64 `+=`, `-=` and `>`.
FAdd(x, y) == FRound(x.k + y.k, x.d + y.d)
FSub(x, y) == FRound(x.k - y.k, x.d - y.d)
FGt(x, y) == x.k > y.k \/ (x.k = y.k /\ x.d > y.d)

\* (x * 10000.0).round() / 10000.0 for x = k * 2^53 + d with k > 0.  The
\* product is the real number 625k * 2^57 + 10000d rounded to binary64, whose
\* neighbours at that size are 2^(FloorLog2(625k) + 5) apart; it is an
\* integer, so round() leaves it; the quotient is k * 2^53 + p / 10000 rounded
\* to binary64.
RoundedPositive(k, d) ==
    LET p == RoundHalfEven(10000 * d, 2 ^ (FloorLog2(625 * k) + 5))
        s == Spacing(k, p)
    IN  F(k, RoundHalfEven(p, 10000 * s) \div 10000)

\* (x * 10000.0).round() / 10000.0, the balance as the program writes it and
\* as the accessors of the tests return it.  Below 2^53 the integer x comes
\* back unchanged: 10000x and the quotient are exact.
Rounded(x) ==
    IF x.k = 0 THEN x
    ELSE IF x.k > 0 THEN RoundedPositive(x.k, x.d)
    ELSE LET r == RoundedPositive(-x.k, -x.d) IN F(-r.k, -r.d)

\* The amount field of an instruction: -1.0, 1.0 or 2^53, or NoAmount, which
\* is Option::None (an empty field).  The dispute, resolve and chargeback
\* instructions of the model carry 1.0 or nothing.
NoAmount == [none |-> "amount"]
Amounts == {F(0, -1), F(0, 1), F(1, 0)}
OptAmounts == Amounts \cup {NoAmount}
RefAmounts == {F(0, 1), NoAmount}

(***************************************************************************)
(* Account (account.rs).                                                   *)
(***************************************************************************)
NoAccount == [none |-> "account"]

\* Account::new
NewAccount(client_id) ==
    [client_id |-> client_id, available_balance |-> Zero, held_balance |-> Zero,
     total_balance |-> Zero, locked |-> FALSE]

\* impl Serialize for Account: the row written for an account.
Serialize(acc) ==
    [client |-> acc.client_id,
     available |-> Rounded(acc.available_balance),
     held |-> Rounded(acc.held_balance),
     total |-> Rounded(acc.total_balance),
     locked |-> acc.locked]

\* is_locked with the flag ignored.
is_locked_Never(acc) == FALSE

\* Account::is_locked: TRUE stands for Err(LockedAccount).
is_locked(acc) == acc.locked

\* Account::has_sufficient_funds: TRUE stands for Ok(()).
has_sufficient_funds(acc, amount) == ~FGt(amount, acc.available_balance)

\* Account::has_sufficient_hold_balande: TRUE stands for Ok(()).
has_sufficient_hold_balande(acc, amount) == ~FGt(amount, acc.held_balance)

Ok(acc) == [acc |-> acc, res |-> "Ok"]
Err(acc, e) == [acc |-> acc, res |-> e]

\* Account::deposit
AccDeposit(acc, amount) ==
    IF is_locked(acc) THEN Err(acc, "LockedAccount")
    ELSE Ok([acc EXCEPT !.available_balance = FAdd(@, amount),
                        !.total_balance = FAdd(@, amount)])

\* withdrawal that debits total before it checks the funds.
AccWithdrawal_DebitBeforeCheck(acc, amount) ==
    IF is_locked(acc) THEN Err(acc, "LockedAccount")
    ELSE IF ~has_sufficient_funds(acc, amount)
    THEN Err([acc EXCEPT !.total_balance = FSub(@, amount)], "InsufficientFunds")
    ELSE Ok([acc EXCEPT !.available_balance = FSub(@, amount),
                        !.total_balance = FSub(@, amount)])

\* Account::withdrawal
AccWithdrawal(acc, amount) ==
    IF is_locked(acc) THEN Err(acc, "LockedAccount")
    ELSE IF ~has_sufficient_funds(acc, amount) THEN Err(acc, "InsufficientFunds")
    ELSE Ok([acc EXCEPT !.available_balance = FSub(@, amount),
                        !.total_balance = FSub(@, amount)])

\* Account::dispute
AccDispute(acc, amount) ==
    IF is_locked(acc) THEN Err(acc, "LockedAccount")
    ELSE IF ~has_sufficient_funds(acc, amount) THEN Err(acc, "InsufficientFunds")
    ELSE Ok([acc EXCEPT !.available_balance = FSub(@, amount),
                        !.held_balance = FAdd(@, amount)])

\* resolve without the lock check.
AccResolve_NoLockCheck(acc, amount) ==
    IF ~has_sufficient_hold_balande(acc, amount) THEN Err(acc, "InsufficientFunds")
    ELSE Ok([acc EXCEPT !.held_balance = FSub(@, amount),
                        !.available_balance = FAdd(@, amount)])

\* resolve with the funds check ahead of the lock check.
AccResolve_FundsFirst(acc, amount) ==
    IF ~has_sufficient_hold_balande(acc, amount) THEN Err(acc, "InsufficientFunds")
    ELSE IF is_locked(acc) THEN Err(acc, "LockedAccount")
    ELSE Ok([acc EXCEPT !.held_balance = FSub(@, amount),
                        !.available_balance = FAdd(@, amount)])

\* Account::resolve
AccResolve(acc, amount) ==
    IF is_locked(acc) THEN Err(acc, "LockedAccount")
    ELSE IF ~has_sufficient_hold_balande(acc, amount) THEN Err(acc, "InsufficientFunds")
    ELSE Ok([acc EXCEPT !.held_balance = FSub(@, amount),
                        !.available_balance = FAdd(@, amount)])

\* chargeback that takes the amount out of available instead of total.
AccChargeback_DebitsAvailable(acc, amount) ==
    IF is_locked(acc) THEN Err(acc, "LockedAccount")
    ELSE IF ~has_sufficient_hold_balande(acc, amount) THEN Err(acc, "InsufficientFunds")
    ELSE Ok([acc EXCEPT !.held_balance = FSub(@, amount),
                        !.available_balance = FSub(@, amount),
                        !.locked = TRUE])

\* Account::chargeback
AccChargeback(acc, amount) ==
    IF is_locked(acc) THEN Err(acc, "LockedAccount")
    ELSE IF ~has_sufficient_hold_balande(acc, amount) THEN Err(acc, "InsufficientFunds")
    ELSE Ok([acc EXCEPT !.held_balance = FSub(@, amount),
                        !.total_balance = FSub(@, amount),
                        !.locked = TRUE])

\* AccountsRepository::get_or_create: the map after entry(id).or_insert_with.
get_or_create(accts, id) ==
    IF accts[id] = NoAccount THEN [accts EXCEPT ![id] = NewAccount(id)] ELSE accts

(***************************************************************************)
(* Transaction and TransactionLedger (transaction.rs).                     *)
(***************************************************************************)
NoTx == [none |-> "transaction"]

\* A Transaction as the parser or Transaction::new builds it: is_dispute is
\* false, amount is Some(f64) or None.
Transaction(id, type, account_id, amount) ==
    [id |-> id, type |-> type, account_id |-> account_id, amount |-> amount,
     is_dispute |-> FALSE]

\* TransactionLedger::append: entry(tx.id).or_insert(*tx).
LedgerAppend(led, tx) ==
    IF led[tx.id] = NoTx THEN [led EXCEPT ![tx.id] = tx] ELSE led

\* TransactionLedger::get
LedgerGet(led, tx_id) == led[tx_id]

\* TransactionLedger::dispute_tx: get_mut(&tx_id).unwrap() panics when the id
\* has no record; otherwise the record's flag is set.
dispute_tx(led, tx_id) ==
    IF led[tx_id] = NoTx THEN [transactions |-> led, res |-> "Panic"]
    ELSE [transactions |-> [led EXCEPT ![tx_id].is_dispute = TRUE], res |-> "Ok"]

\* TransactionLedger::undispute_tx: the same unwrap; the flag is cleared.
undispute_tx(led, tx_id) ==
    IF led[tx_id] = NoTx THEN [transactions |-> led, res |-> "Panic"]
    ELSE [transactions |-> [led EXCEPT ![tx_id].is_dispute = FALSE], res |-> "Ok"]

(***************************************************************************)
(* Engine (engine.rs).  A handler yields the two collections as it leaves  *)
(* them and what became of the instruction: the Account operation's result *)
(* ("Ok", "InsufficientFunds", "LockedAccount"), "Skipped" when the        *)
(* handler returned without calling an Account operation, or "Panic" when  *)
(* Transaction::amount unwrapped a None.                                   *)
(***************************************************************************)
Out(accts, led, result) == [accounts |-> accts, transactions |-> led, result |-> result]

\* deposit without the check for an already recorded id.
EngineDeposit_NoDuplicateGuard(accts, led, tx) ==
    LET a1 == get_or_create(accts, tx.account_id)
    IN  IF tx.amount = NoAmount THEN Out(a1, led, "Panic")
        ELSE LET r == AccDeposit(a1[tx.account_id], tx.amount)
             IN  Out([a1 EXCEPT ![tx.account_id] = r.acc], led, r.res)

\* Engine::deposit
EngineDeposit(accts, led, tx) ==
    LET a1 == get_or_create(accts, tx.account_id)
    IN  IF LedgerGet(led, tx.id) # NoTx THEN Out(a1, led, "Skipped")
        ELSE IF tx.amount = NoAmount THEN Out(a1, led, "Panic")
        ELSE LET r == AccDeposit(a1[tx.account_id], tx.amount)
             IN  Out([a1 EXCEPT ![tx.account_id] = r.acc], led, r.res)

\* Engine::withdrawal
EngineWithdrawal(accts, led, tx) ==
    LET a1 == get_or_create(accts, tx.account_id)
    IN  IF LedgerGet(led, tx.id) # NoTx THEN Out(a1, led, "Skipped")
        ELSE IF tx.amount = NoAmount THEN Out(a1, led, "Panic")
        ELSE LET r == AccWithdrawal(a1[tx.account_id], tx.amount)
             IN  Out([a1 EXCEPT ![tx.account_id] = r.acc], led, r.res)

\* dispute without the test of the record's is_dispute flag.
EngineDispute_NoFlagCheck(accts, led, tx) ==
    LET a1 == get_or_create(accts, tx.account_id)
        old_tx == LedgerGet(led, tx.id)
    IN  IF old_tx = NoTx THEN Out(a1, led, "Skipped")
        ELSE IF a1[tx.account_id].client_id # old_tx.account_id
        THEN Out(a1, led, "Skipped")
        ELSE IF old_tx.amount = NoAmount THEN Out(a1, led, "Panic")
        ELSE LET r == AccDispute(a1[tx.account_id], old_tx.amount)
             IN  IF r.res # "Ok" THEN Out(a1, led, r.res)
                 ELSE LET d == dispute_tx(led, tx.id)
                      IN  Out([a1 EXCEPT ![tx.account_id] = r.acc],
                              d.transactions, d.res)

\* dispute that skips every record that is not a Deposit.
EngineDispute_DepositsOnly(accts, led, tx) ==
    LET a1 == get_or_create(accts, tx.account_id)
        old_tx == LedgerGet(led, tx.id)
    IN  IF old_tx = NoTx THEN Out(a1, led, "Skipped")
        ELSE IF old_tx.type # "Deposit" THEN Out(a1, led, "Skipped")
        ELSE IF old_tx.is_dispute \/ a1[tx.account_id].client_id # old_tx.account_id
        THEN Out(a1, led, "Skipped")
        ELSE IF old_tx.amount = NoAmount THEN Out(a1, led, "Panic")
        ELSE LET r == AccDispute(a1[tx.account_id], old_tx.amount)
             IN  IF r.res # "Ok" THEN Out(a1, led, r.res)
                 ELSE LET d == dispute_tx(led, tx.id)
                      IN  Out([a1 EXCEPT ![tx.account_id] = r.acc],
                              d.transactions, d.res)

\* dispute without the comparison of the instruction's client with the
\* record's.
EngineDispute_NoClientCheck(accts, led, tx) ==
    LET a1 == get_or_create(accts, tx.account_id)
        old_tx == LedgerGet(led, tx.id)
    IN  IF old_tx = NoTx THEN Out(a1, led, "Skipped")
        ELSE IF old_tx.is_dispute THEN Out(a1, led, "Skipped")
        ELSE IF old_tx.amount = NoAmount THEN Out(a1, led, "Panic")
        ELSE LET r == AccDispute(a1[tx.account_id], old_tx.amount)
             IN  IF r.res # "Ok" THEN Out(a1, led, r.res)
                 ELSE LET d == dispute_tx(led, tx.id)
                      IN  Out([a1 EXCEPT ![tx.account_id] = r.acc],
                              d.transactions, d.res)

\* dispute that flags the record before looking at Account::dispute's result.
EngineDispute_FlagOnFailure(accts, led, tx) ==
    LET a1 == get_or_create(accts, tx.account_id)
        old_tx == LedgerGet(led, tx.id)
    IN  IF old_tx = NoTx THEN Out(a1, led, "Skipped")
        ELSE IF old_tx.is_dispute \/ a1[tx.account_id].client_id # old_tx.account_id
        THEN Out(a1, led, "Skipped")
        ELSE IF old_tx.amount = NoAmount THEN Out(a1, led, "Panic")
        ELSE LET r == AccDispute(a1[tx.account_id], old_tx.amount)
                 d == dispute_tx(led, tx.id)
             IN  IF r.res # "Ok" THEN Out(a1, d.transactions, r.res)
                 ELSE Out([a1 EXCEPT ![tx.account_id] = r.acc],
                          d.transactions, d.res)

\* Engine::dispute
EngineDispute(accts, led, tx) ==
    LET a1 == get_or_create(accts, tx.account_id)
        old_tx == LedgerGet(led, tx.id)
    IN  IF old_tx = NoTx THEN Out(a1, led, "Skipped")
        ELSE IF old_tx.is_dispute \/ a1[tx.account_id].client_id # old_tx.account_id
        THEN Out(a1, led, "Skipped")
        ELSE IF old_tx.amount = NoAmount THEN Out(a1, led, "Panic")
        ELSE LET r == AccDispute(a1[tx.account_id], old_tx.amount)
             IN  IF r.res # "Ok" THEN Out(a1, led, r.res)
                 ELSE LET d == dispute_tx(led, tx.id)
                      IN  Out([a1 EXCEPT ![tx.account_id] = r.acc],
                              d.transactions, d.res)

\* resolve without the test of the record's is_dispute flag.
EngineResolve_NoFlagCheck(accts, led, tx) ==
    LET a1 == get_or_create(accts, tx.account_id)
        old_tx == LedgerGet(led, tx.id)
    IN  IF old_tx = NoTx THEN Out(a1, led, "Skipped")
        ELSE IF old_tx.account_id # a1[tx.account_id].client_id
        THEN Out(a1, led, "Skipped")
        ELSE IF old_tx.amount = NoAmount THEN Out(a1, led, "Panic")
        ELSE LET r == AccResolve(a1[tx.account_id], old_tx.amount)
             IN  IF r.res # "Ok" THEN Out(a1, led, r.res)
                 ELSE LET d == undispute_tx(led, tx.id)
                      IN  Out([a1 EXCEPT ![tx.account_id] = r.acc],
                              d.transactions, d.res)

\* resolve without the comparison of the instruction's client with the
\* record's.
EngineResolve_NoClientCheck(accts, led, tx) ==
    LET a1 == get_or_create(accts, tx.account_id)
        old_tx == LedgerGet(led, tx.id)
    IN  IF old_tx = NoTx THEN Out(a1, led, "Skipped")
        ELSE IF ~old_tx.is_dispute THEN Out(a1, led, "Skipped")
        ELSE IF old_tx.amount = NoAmount THEN Out(a1, led, "Panic")
        ELSE LET r == AccResolve(a1[tx.account_id], old_tx.amount)
             IN  IF r.res # "Ok" THEN Out(a1, led, r.res)
                 ELSE LET d == undispute_tx(led, tx.id)
                      IN  Out([a1 EXCEPT ![tx.account_id] = r.acc],
                              d.transactions, d.res)

\* Engine::resolve
EngineResolve(accts, led, tx) ==
    LET a1 == get_or_create(accts, tx.account_id)
        old_tx == LedgerGet(led, tx.id)
    IN  IF old_tx = NoTx THEN Out(a1, led, "Skipped")
        ELSE IF ~(old_tx.is_dispute /\ old_tx.account_id = a1[tx.account_id].client_id)
        THEN Out(a1, led, "Skipped")
        ELSE IF old_tx.amount = NoAmount THEN Out(a1, led, "Panic")
        ELSE LET r == AccResolve(a1[tx.account_id], old_tx.amount)
             IN  IF r.res # "Ok" THEN Out(a1, led, r.res)
                 ELSE LET d == undispute_tx(led, tx.id)
                      IN  Out([a1 EXCEPT ![tx.account_id] = r.acc],
                              d.transactions, d.res)

\* chargeback without the test of the record's is_dispute flag.
EngineChargeback_NoFlagCheck(accts, led, tx) ==
    LET a1 == get_or_create(accts, tx.account_id)
        old_tx == LedgerGet(led, tx.id)
    IN  IF old_tx = NoTx THEN Out(a1, led, "Skipped")
        ELSE IF old_tx.account_id # a1[tx.account_id].client_id
        THEN Out(a1, led, "Skipped")
        ELSE IF old_tx.amount = NoAmount THEN Out(a1, led, "Panic")
        ELSE LET r == AccChargeback(a1[tx.account_id], old_tx.amount)
             IN  Out([a1 EXCEPT ![tx.account_id] = r.acc], led, r.res)

\* chargeback that looks the record up before it fetches the account, so that
\* a reference to an unknown id creates no account.
EngineChargeback_LookupBeforeCreate(accts, led, tx) ==
    LET a1 == get_or_create(accts, tx.account_id)
        old_tx == LedgerGet(led, tx.id)
    IN  IF old_tx = NoTx THEN Out(accts, led, "Skipped")
        ELSE IF ~(old_tx.is_dispute /\ old_tx.account_id = a1[tx.account_id].client_id)
        THEN Out(a1, led, "Skipped")
        ELSE IF old_tx.amount = NoAmount THEN Out(a1, led, "Panic")
        ELSE LET r == AccChargeback(a1[tx.account_id], old_tx.amount)
             IN  Out([a1 EXCEPT ![tx.account_id] = r.acc], led, r.res)

\* Engine::chargeback
EngineChargeback(accts, led, tx) ==
    LET a1 == get_or_create(accts, tx.account_id)
        old_tx == LedgerGet(led, tx.id)
    IN  IF old_tx = NoTx THEN Out(a1, led, "Skipped")
        ELSE IF ~(old_tx.is_dispute /\ old_tx.account_id = a1[tx.account_id].client_id)
        THEN Out(a1, led, "Skipped")
        ELSE IF old_tx.amount = NoAmount THEN Out(a1, led, "Panic")
        ELSE LET r == AccChargeback(a1[tx.account_id], old_tx.amount)
             IN  Out([a1 EXCEPT ![tx.account_id] = r.acc], led, r.res)

(***************************************************************************)
(* State.  accounts and transactions are the two maps; pc is "running"     *)
(* while Engine::process iterates and "panicked" once it has unwound.      *)
(* The other variables record the run for the properties below: steps is   *)
(* the number of instructions consumed, last the instruction consumed last *)
(* with its result, applied[id] the number of Deposit/Withdrawal           *)
(* instructions with that id whose processing changed an account's         *)
(* balances or lock flag, dw_seen the ids that Deposit/Withdrawal          *)
(* instructions have carried so far.                                       *)
(***************************************************************************)
VARIABLES accounts, transactions, pc, steps, last, applied, dw_seen

vars == <<accounts, transactions, pc, steps, last, applied, dw_seen>>

NoLast == [type |-> "None", account_id |-> 0, id |-> 0, result |-> "None"]

\* main: AccountsRepository::default(), TransactionLedger::default().
Init ==
    /\ accounts = [c \in ClientIds |-> NoAccount]
    /\ transactions = [i \in LedgerIds |-> NoTx]
    /\ pc = "running"
    /\ steps = 0
    /\ last = NoLast
    /\ applied = [i \in LedgerIds |-> 0]
    /\ dw_seen = {}

\* The stored fields of the account get_or_create(c) hands to a handler: the
\* account of client c, or that of Account::new for a client without one.
View(accts, c) == IF accts[c] = NoAccount THEN NewAccount(c) ELSE accts[c]

Mutated(accts1, accts2) == \E c \in ClientIds : View(accts1, c) # View(accts2, c)

\* What one iteration of the loop of Engine::process leaves behind, given the
\* handler's outcome r for tx: the handler's collections, then
\* tx_ledger.append(tx).  A panic unwinds out of process: nothing is appended.
Appended(r, tx) ==
    IF r.result = "Panic" THEN r.transactions ELSE LedgerAppend(r.transactions, tx)

PcAfter(r) == IF r.result = "Panic" THEN "panicked" ELSE "running"

LastOf(r, tx) ==
    [type |-> tx.type, account_id |-> tx.account_id, id |-> tx.id, result |-> r.result]

AppliedAfter(r, tx) ==
    IF Mutated(accounts, r.accounts) THEN [applied EXCEPT ![tx.id] = @ + 1] ELSE applied

\* The match of Engine::process on the instruction's type.
Dispatch(accts, led, tx) ==
    CASE tx.type = "Deposit" -> EngineDeposit(accts, led, tx)
      [] tx.type = "Withdrawal" -> EngineWithdrawal(accts, led, tx)
      [] tx.type = "Dispute" -> EngineDispute(accts, led, tx)
      [] tx.type = "Resolve" -> EngineResolve(accts, led, tx)
      [] tx.type = "Chargeback" -> EngineChargeback(accts, led, tx)

\* Engine::process on a whole input: what the loop leaves of the two
\* collections, and whether it ran to the end or unwound.
RECURSIVE process(_, _, _)
process(accts, led, input_tx) ==
    IF input_tx = <<>>
    THEN [accounts |-> accts, transactions |-> led, pc |-> "running"]
    ELSE LET tx == Head(input_tx)
             r == Dispatch(accts, led, tx)
         IN  IF r.result = "Panic"
             THEN [accounts |-> r.accounts, transactions |-> r.transactions,
                   pc |-> "panicked"]
             ELSE process(r.accounts, Appended(r, tx), Tail(input_tx))

\* Type::Deposit => self.deposit(tx), then self.tx_ledger.append(tx).
Deposit ==
    \E c \in ClientIds, i \in TxIds, a \in OptAmounts :
        LET tx == Transaction(i, "Deposit", c, a)
            r == EngineDeposit(accounts, transactions, tx)
        IN  /\ pc = "running"
            /\ steps < MaxSteps
            /\ accounts' = r.accounts
            /\ transactions' = Appended(r, tx)
            /\ pc' = PcAfter(r)
            /\ steps' = steps + 1
            /\ last' = LastOf(r, tx)
            /\ applied' = AppliedAfter(r, tx)
            /\ dw_seen' = dw_seen \cup {tx.id}

\* Type::Withdrawal => self.withdrawal(tx), then self.tx_ledger.append(tx).
Withdrawal ==
    \E c \in ClientIds, i \in TxIds, a \in OptAmounts :
        LET tx == Transaction(i, "Withdrawal", c, a)
            r == EngineWithdrawal(accounts, transactions, tx)
        IN  /\ pc = "running"
            /\ steps < MaxSteps
            /\ accounts' = r.accounts
            /\ transactions' = Appended(r, tx)
            /\ pc' = PcAfter(r)
            /\ steps' = steps + 1
            /\ last' = LastOf(r, tx)
            /\ applied' = AppliedAfter(r, tx)
            /\ dw_seen' = dw_seen \cup {tx.id}

\* Type::Dispute => self.dispute(tx), then self.tx_ledger.append(tx).
Dispute ==
    \E c \in ClientIds, i \in TxIds, a \in RefAmounts :
        LET tx == Transaction(i, "Dispute", c, a)
            r == EngineDispute(accounts, transactions, tx)
        IN  /\ pc = "running"
            /\ steps < MaxSteps
            /\ accounts' = r.accounts
            /\ transactions' = Appended(r, tx)
            /\ pc' = PcAfter(r)
            /\ steps' = steps + 1
            /\ last' = LastOf(r, tx)
            /\ UNCHANGED <<applied, dw_seen>>

\* Type::Resolve => self.resolve(tx), then self.tx_ledger.append(tx).
Resolve ==
    \E c \in ClientIds, i \in TxIds, a \in RefAmounts :
        LET tx == Transaction(i, "Resolve", c, a)
            r == EngineResolve(accounts, transactions, tx)
        IN  /\ pc = "running"
            /\ steps < MaxSteps
            /\ accounts' = r.accounts
            /\ transactions' = Appended(r, tx)
            /\ pc' = PcAfter(r)
            /\ steps' = steps + 1
            /\ last' = LastOf(r, tx)
            /\ UNCHANGED <<applied, dw_seen>>

\* Type::Chargeback => self.chargeback(tx), then self.tx_ledger.append(tx).
Chargeback ==
    \E c \in ClientIds, i \in TxIds, a \in RefAmounts :
        LET tx == Transaction(i, "Chargeback", c, a)
            r == EngineChargeback(accounts, transactions, tx)
        IN  /\ pc = "running"
            /\ steps < MaxSteps
            /\ accounts' = r.accounts
            /\ transactions' = Appended(r, tx)
            /\ pc' = PcAfter(r)
            /\ steps' = steps + 1
            /\ last' = LastOf(r, tx)
            /\ UNCHANGED <<applied, dw_seen>>

\* for tx in input_tx: the next instruction of the input is of any kind.
Next == Deposit \/ Withdrawal \/ Dispute \/ Resolve \/ Chargeback

Spec == Init /\ [][Next]_vars

(***************************************************************************)
(* A second specification of the same loop for the properties that need    *)
(* longer inputs: one client, three transaction ids, amounts 1.0 and 2^53  *)
(* only (every amount present and positive), MaxDeepSteps instructions.    *)
(***************************************************************************)
MaxDeepSteps == 6

DeepClientIds == {1}
DeepTxIds == {1, 2, 3}
DeepAmounts == {F(0, 1), F(1, 0)}
DeepRefAmounts == {F(0, 1)}

\* One iteration of the loop of Engine::process with outcome r for tx.
Iteration(r, tx) ==
    /\ pc = "running"
    /\ accounts' = r.accounts
    /\ transactions' = Appended(r, tx)
    /\ pc' = PcAfter(r)
    /\ steps' = steps + 1
    /\ last' = LastOf(r, tx)
    /\ applied' = IF tx.type \in {"Deposit", "Withdrawal"}
                  THEN AppliedAfter(r, tx) ELSE applied
    /\ dw_seen' = IF tx.type \in {"Deposit", "Withdrawal"}
                  THEN dw_seen \cup {tx.id} ELSE dw_seen

DeepDeposit ==
    \E c \in DeepClientIds, i \in DeepTxIds, a \in DeepAmounts :
        LET tx == Transaction(i, "Deposit", c, a)
        IN  /\ steps < MaxDeepSteps
            /\ Iteration(EngineDeposit(accounts, transactions, tx), tx)

DeepWithdrawal ==
    \E c \in DeepClientIds, i \in DeepTxIds, a \in DeepAmounts :
        LET tx == Transaction(i, "Withdrawal", c, a)
        IN  /\ steps < MaxDeepSteps
            /\ Iteration(EngineWithdrawal(accounts, transactions, tx), tx)

DeepDispute ==
    \E c \in DeepClientIds, i \in DeepTxIds, a \in DeepRefAmounts :
        LET tx == Transaction(i, "Dispute", c, a)
        IN  /\ steps < MaxDeepSteps
            /\ Iteration(EngineDispute(accounts, transactions, tx), tx)

DeepResolve ==
    \E c \in DeepClientIds, i \in DeepTxIds, a \in DeepRefAmounts :
        LET tx == Transaction(i, "Resolve", c, a)
        IN  /\ steps < MaxDeepSteps
            /\ Iteration(EngineResolve(accounts, transactions, tx), tx)

DeepChargeback ==
    \E c \in DeepClientIds, i \in DeepTxIds, a \in DeepRefAmounts :
        LET tx == Transaction(i, "Chargeback", c, a)
        IN  /\ steps < MaxDeepSteps
            /\ Iteration(EngineChargeback(accounts, transactions, tx), tx)

DeepNext == DeepDeposit \/ DeepWithdrawal \/ DeepDispute \/ DeepResolve \/ DeepChargeback

SpecDeep == Init /\ [][DeepNext]_vars

(***************************************************************************)
(* Properties.                                                             *)
(***************************************************************************)
Exists(c) == accounts[c] # NoAccount

Recorded(i) == transactions[i] # NoTx

DW == {"Deposit", "Withdrawal"}

\* The real numbers x and y + z are equal.
ExactSum(x, y, z) == x.k = y.k + z.k /\ x.d = y.d + z.d

\* No record's is_dispute flag differs between this state and the next.
FlagsUnchanged ==
    \A i \in LedgerIds : Recorded(i) => transactions'[i].is_dispute = transactions[i].is_dispute

\* C1: after every instruction processed by Engine::process, every account
\* satisfies total == available + held, in its stored fields or at least in
\* the rounded values the program writes for it.
C1_TotalIsAvailablePlusHeld ==
    \A c \in ClientIds :
        Exists(c) => \/ ExactSum(accounts[c].total_balance,
                                 accounts[c].available_balance,
                                 accounts[c].held_balance)
                     \/ ExactSum(Serialize(accounts[c]).total,
                                 Serialize(accounts[c]).available,
                                 Serialize(accounts[c]).held)

\* C2: after any sequence of instructions, whatever amounts the deposits and
\* withdrawals carry, every account has available >= 0 and held >= 0.
C2_BalancesNonNegative ==
    \A c \in ClientIds :
        Exists(c) => /\ ~FGt(Zero, accounts[c].available_balance)
                     /\ ~FGt(Zero, accounts[c].held_balance)

\* C3: once an account is locked, its available, held, total and locked
\* values never change again, whatever instructions follow.
C3_LockedIsAbsorbing ==
    [][\A c \in ClientIds :
          (Exists(c) /\ accounts[c].locked) => accounts'[c] = accounts[c]]_vars

\* An instruction has been dispatched to an account that was already locked.
C3_Witness ==
    /\ last.result = "LockedAccount"
    /\ accounts[last.account_id].locked

\* C4: every Account operation invoked on a locked account returns
\* LockedAccount, also when the amount exceeds the relevant balance, and never
\* InsufficientFunds or success.
C4_LockCheckedFirst ==
    \A c \in ClientIds :
        (Exists(c) /\ accounts[c].locked) =>
            \A a \in Amounts :
                /\ AccDeposit(accounts[c], a).res = "LockedAccount"
                /\ AccWithdrawal(accounts[c], a).res = "LockedAccount"
                /\ AccDispute(accounts[c], a).res = "LockedAccount"
                /\ AccResolve(accounts[c], a).res = "LockedAccount"
                /\ AccChargeback(accounts[c], a).res = "LockedAccount"

\* A resolve of a record whose amount exceeds held was invoked on a locked
\* account and returned LockedAccount.
C4_Witness ==
    /\ last.type = "Resolve"
    /\ last.result = "LockedAccount"
    /\ FGt(transactions[last.id].amount, accounts[last.account_id].held_balance)

\* C5: for each id, at most one Deposit or Withdrawal instruction carrying it
\* ever changes an account; an instruction that repeats the id of an earlier
\* Deposit or Withdrawal changes no account.
C5_DuplicateAppliedAtMostOnce ==
    /\ [](\A i \in TxIds : applied[i] <= 1)
    /\ [][(last'.type \in DW /\ last'.id \in dw_seen)
            => (~Mutated(accounts, accounts') /\ applied' = applied)]_vars

\* A Deposit or Withdrawal repeating the id of an applied one was skipped.
C5_Witness ==
    /\ last.type \in DW
    /\ last.result = "Skipped"
    /\ applied[last.id] = 1

\* C6: every record in the history is of kind Deposit or Withdrawal.
C6_HistoryHoldsOnlyDepositsAndWithdrawals ==
    \A i \in TxIds : Recorded(i) => transactions[i].type \in DW

\* C7: a Deposit or Withdrawal whose id has not appeared in any earlier
\* Deposit or Withdrawal instruction is never skipped as a duplicate.
C7_FreshIdNeverSkipped ==
    [][(last'.type \in DW /\ last'.id \notin dw_seen) => last'.result # "Skipped"]_vars

\* C8: Engine::process never enters the abort (panic) state.
C8_NeverAborts == pc # "panicked"

\* C9: while a record is flagged disputed, a further Dispute referencing it
\* changes no balance and no flag.
C9_DisputedRecordNotHeldAgain ==
    [][(last'.type = "Dispute" /\ Recorded(last'.id) /\ transactions[last'.id].is_dispute)
            => (~Mutated(accounts, accounts') /\ FlagsUnchanged)]_vars

\* A Dispute by the record's own client, with enough available to hold the
\* amount once more, was skipped because the record is flagged disputed.
C9_Witness ==
    /\ last.type = "Dispute"
    /\ last.result = "Skipped"
    /\ Recorded(last.id)
    /\ transactions[last.id].is_dispute
    /\ transactions[last.id].account_id = last.account_id
    /\ transactions[last.id].amount # NoAmount
    /\ FGt(transactions[last.id].amount, Zero)
    /\ ~FGt(transactions[last.id].amount, accounts[last.account_id].available_balance)

\* C10: a Resolve referencing a record that is not flagged disputed changes
\* no account's balances or lock flag and no disputed flag.
C10_ResolveOfUndisputedIsNoOp ==
    [][(last'.type = "Resolve" /\ Recorded(last'.id) /\ ~transactions[last'.id].is_dispute)
            => (~Mutated(accounts, accounts') /\ FlagsUnchanged)]_vars

\* A Resolve by the record's own client, with enough held to release the
\* amount, was skipped because the record is not flagged disputed.
C10_Witness ==
    /\ last.type = "Resolve"
    /\ last.result = "Skipped"
    /\ Recorded(last.id)
    /\ transactions[last.id].type \in DW
    /\ ~transactions[last.id].is_dispute
    /\ transactions[last.id].account_id = last.account_id
    /\ FGt(transactions[last.id].amount, Zero)
    /\ ~FGt(transactions[last.id].amount, accounts[last.account_id].held_balance)

\* C11: a Dispute, Resolve or Chargeback whose client differs from the client
\* stored in the record it references changes no account's balances or lock
\* flag and leaves that record's disputed flag as it was.
C11_OtherClientsReferenceIsNoOp ==
    [][(/\ last'.type \in {"Dispute", "Resolve", "Chargeback"}
        /\ Recorded(last'.id)
        /\ transactions[last'.id].account_id # last'.account_id)
            => (/\ ~Mutated(accounts, accounts')
                /\ transactions'[last'.id].is_dispute = transactions[last'.id].is_dispute)]_vars

\* A Resolve by another client was skipped although the record is flagged
\* disputed and its own client's account holds the amount.
C11_Witness ==
    /\ last.type = "Resolve"
    /\ last.result = "Skipped"
    /\ Recorded(last.id)
    /\ transactions[last.id].is_dispute
    /\ transactions[last.id].account_id # last.account_id
    /\ Exists(transactions[last.id].account_id)
    /\ FGt(transactions[last.id].amount, Zero)
    /\ ~FGt(transactions[last.id].amount,
            accounts[transactions[last.id].account_id].held_balance)

\* C12: a record's disputed flag turns true only in the step of a Dispute of
\* that record for which Account::dispute succeeded with the record's amount,
\* and turns false only in the step of a Resolve for which Account::resolve
\* succeeded; a Dispute or Resolve whose Account operation failed leaves every
\* flag unchanged.
C12_FlagFollowsSuccessfulOperation ==
    [][/\ \A i \in LedgerIds :
            Recorded(i) =>
                /\ (~transactions[i].is_dispute /\ transactions'[i].is_dispute)
                        => /\ last'.type = "Dispute"
                           /\ last'.id = i
                           /\ last'.result = "Ok"
                           /\ transactions[i].amount # NoAmount
                           /\ AccDispute(View(accounts, last'.account_id),
                                         transactions[i].amount).res = "Ok"
                /\ (transactions[i].is_dispute /\ ~transactions'[i].is_dispute)
                        => /\ last'.type = "Resolve"
                           /\ last'.id = i
                           /\ last'.result = "Ok"
                           /\ transactions[i].amount # NoAmount
                           /\ AccResolve(View(accounts, last'.account_id),
                                         transactions[i].amount).res = "Ok"
       /\ (/\ last'.type \in {"Dispute", "Resolve"}
           /\ last'.result \in {"InsufficientFunds", "LockedAccount"})
                => FlagsUnchanged]_vars

\* A Dispute by the record's own client failed in Account::dispute and the
\* record is still not flagged.
C12_Witness ==
    /\ last.type = "Dispute"
    /\ last.result \in {"InsufficientFunds", "LockedAccount"}
    /\ Recorded(last.id)
    /\ transactions[last.id].account_id = last.account_id
    /\ ~transactions[last.id].is_dispute

\* C13: the collection of accounts holds exactly the clients of the
\* instructions processed so far.  It is empty before the first instruction;
\* every step adds the account of its instruction's client if it is not there
\* yet, whatever became of the instruction, adds no other account and removes
\* none; the account of client c is stored under c; an account created in a
\* step starts from zero balances, unlocked, so after a step whose instruction
\* did not succeed it still is the all-zero account, and after one that
\* succeeded it holds nothing and has total = available.
C13_AccountsAreTheClientsSeen ==
    /\ [](steps = 0 => \A c \in ClientIds : ~Exists(c))
    /\ [](\A c \in ClientIds : Exists(c) => accounts[c].client_id = c)
    /\ [][/\ \A c \in ClientIds : Exists(c)' <=> (Exists(c) \/ c = last'.account_id)
          /\ \A c \in ClientIds :
                (~Exists(c) /\ Exists(c)')
                    => /\ accounts'[c].held_balance = Zero
                       /\ ~accounts'[c].locked
                       /\ accounts'[c].available_balance = accounts'[c].total_balance
                       /\ last'.result # "Ok" => accounts'[c] = NewAccount(c)]_vars

\* The first instruction referenced an unknown id and was skipped; its
\* client's account exists, all zero and unlocked, and no other account does.
C13_Witness ==
    /\ steps = 1
    /\ last.type \in {"Dispute", "Resolve", "Chargeback"}
    /\ last.result = "Skipped"
    /\ accounts[last.account_id] = NewAccount(last.account_id)
    /\ \A c \in ClientIds \ {last.account_id} : ~Exists(c)

\* C14: an Account operation returns InsufficientFunds exactly when the
\* account is unlocked and the amount exceeds available (withdrawal, dispute)
\* or held (resolve, chargeback), and it then leaves the account as it was;
\* the step of an instruction that failed so changes no account.
C14_InsufficientFundsChangesNothing ==
    /\ [](\A c \in ClientIds, a \in Amounts :
            LET acc == View(accounts, c)
                w == AccWithdrawal(acc, a)
                d == AccDispute(acc, a)
                r == AccResolve(acc, a)
                b == AccChargeback(acc, a)
            IN  /\ w.res = "InsufficientFunds"
                        <=> (~acc.locked /\ FGt(a, acc.available_balance))
                /\ d.res = "InsufficientFunds"
                        <=> (~acc.locked /\ FGt(a, acc.available_balance))
                /\ r.res = "InsufficientFunds"
                        <=> (~acc.locked /\ FGt(a, acc.held_balance))
                /\ b.res = "InsufficientFunds"
                        <=> (~acc.locked /\ FGt(a, acc.held_balance))
                /\ w.res = "InsufficientFunds" => w.acc = acc
                /\ d.res = "InsufficientFunds" => d.acc = acc
                /\ r.res = "InsufficientFunds" => r.acc = acc
                /\ b.res = "InsufficientFunds" => b.acc = acc)
    /\ [][last'.result = "InsufficientFunds" => ~Mutated(accounts, accounts')]_vars

\* A Withdrawal of more than the account's positive available failed.
C14_Witness ==
    /\ last.type = "Withdrawal"
    /\ last.result = "InsufficientFunds"
    /\ FGt(accounts[last.account_id].available_balance, Zero)
    /\ accounts[last.account_id].total_balance = accounts[last.account_id].available_balance

\* The instructions an input can hold.
Instructions ==
    {Transaction(i, t, c, a) : i \in TxIds, t \in DW, c \in ClientIds, a \in OptAmounts}
        \cup {Transaction(i, t, c, a) : i \in TxIds, t \in {"Dispute", "Resolve", "Chargeback"},
                                        c \in ClientIds, a \in RefAmounts}

\* What may follow an instruction in the input: nothing or one instruction.
Suffixes == {<<>>} \cup {<<tx>> : tx \in Instructions}

\* C15: an instruction whose Account operation fails has no effect on the
\* run: whatever was processed before it and whatever follows it, the
\* accounts at the end are those of the same input without that instruction.
C15_FailedInstructionHasNoEffect ==
    pc = "running" =>
        \A tx \in Instructions :
            Dispatch(accounts, transactions, tx).result \in {"InsufficientFunds", "LockedAccount"}
                => \A rest \in Suffixes :
                        LET with == process(accounts, transactions, <<tx>> \o rest)
                            without == process(accounts, transactions, rest)
                        IN  (with.pc = "running" /\ without.pc = "running")
                                => \A c \in ClientIds :
                                        View(with.accounts, c) = View(without.accounts, c)

\* C16: dispute_tx and undispute_tx called with an id that has no record
\* return an error and leave the ledger as it was.
C16_MissingIdIsReportedNotTrapped ==
    \A i \in LedgerIds :
        ~Recorded(i)
            => /\ dispute_tx(transactions, i).res = "Err"
               /\ dispute_tx(transactions, i).transactions = transactions
               /\ undispute_tx(transactions, i).res = "Err"
               /\ undispute_tx(transactions, i).transactions = transactions

\* C17: a Chargeback succeeds exactly when it references a record flagged
\* disputed, of the same client, whose amount is not greater than the held
\* balance of the unlocked account; it then takes the amount off held and off
\* total (the f64 subtractions of Account::chargeback), leaves available as
\* it was, locks the account, and touches no other account.
C17_ChargebackEffect ==
    [][last'.type = "Chargeback" =>
        LET c == last'.account_id
            rec == transactions[last'.id]
            old == View(accounts, c)
            eligible == /\ Recorded(last'.id)
                        /\ rec.is_dispute
                        /\ rec.account_id = c
                        /\ ~old.locked
                        /\ ~FGt(rec.amount, old.held_balance)
        IN  /\ last'.result = "Ok" <=> eligible
            /\ last'.result = "Ok"
                    => /\ accounts'[c].held_balance = FSub(old.held_balance, rec.amount)
                       /\ accounts'[c].total_balance = FSub(old.total_balance, rec.amount)
                       /\ accounts'[c].available_balance = old.available_balance
                       /\ accounts'[c].locked
                       /\ \A o \in ClientIds \ {c} : View(accounts', o) = View(accounts, o)]_vars

\* A Chargeback of a positive amount succeeded on an account that keeps a
\* positive available balance.
C17_Witness ==
    /\ last.type = "Chargeback"
    /\ last.result = "Ok"
    /\ FGt(transactions[last.id].amount, Zero)
    /\ FGt(accounts[last.account_id].available_balance, Zero)
    /\ accounts[last.account_id].held_balance = Zero
    /\ accounts[last.account_id].locked

\* C18: a Dispute that succeeds, followed at once by a Resolve of the same
\* record by the same client, gives the account back the available, held and
\* total it had before the Dispute and leaves the record not flagged; total
\* is the same before, between and after the two instructions.  The balances
\* are compared as stored and, failing that, as the program writes them.
C18_DisputeThenResolveRestores ==
    pc = "running" =>
        \A c \in ClientIds, i \in LedgerIds :
            LET dispute == Transaction(i, "Dispute", c, NoAmount)
                resolve == Transaction(i, "Resolve", c, NoAmount)
                mid == process(accounts, transactions, <<dispute>>)
                end == process(accounts, transactions, <<dispute, resolve>>)
            IN  Dispatch(accounts, transactions, dispute).result = "Ok"
                    => /\ end.pc = "running"
                       /\ \/ end.accounts[c] = accounts[c]
                          \/ Serialize(end.accounts[c]) = Serialize(accounts[c])
                       /\ \/ mid.accounts[c].total_balance = accounts[c].total_balance
                          \/ Serialize(mid.accounts[c]).total = Serialize(accounts[c]).total
                       /\ ~end.transactions[i].is_dispute

\* C19: an account's locked flag turns true only in the step of a Chargeback
\* by that account's client that references a record flagged disputed, of the
\* same client, whose amount is not greater than the account's held balance.
C19_LockedOnlyBySuccessfulChargeback ==
    [][\A c \in ClientIds :
            (~View(accounts, c).locked /\ View(accounts', c).locked)
                => /\ last'.type = "Chargeback"
                   /\ last'.result = "Ok"
                   /\ last'.account_id = c
                   /\ Recorded(last'.id)
                   /\ transactions[last'.id].is_dispute
                   /\ transactions[last'.id].account_id = c
                   /\ ~FGt(transactions[last'.id].amount, View(accounts, c).held_balance)]_vars

\* A Chargeback has just locked its client's account while the other client
\* has an account that is not locked.
C19_Witness ==
    /\ last.type = "Chargeback"
    /\ last.result = "Ok"
    /\ accounts[last.account_id].locked
    /\ transactions[last.id].is_dispute
    /\ \E o \in ClientIds \ {last.account_id} : Exists(o) /\ ~accounts[o].locked

\* C20: a Dispute of a recorded Withdrawal, not flagged, by the record's
\* client on an unlocked account whose available is not less than the
\* record's amount, moves that amount from available to held (the f64
\* operations of Account::dispute), leaves total as it was and flags the
\* record, whether or not the withdrawal was applied (applied[id] is 0 or 1).
C20_WithdrawalRecordIsDisputable ==
    [][(/\ last'.type = "Dispute"
        /\ Recorded(last'.id)
        /\ transactions[last'.id].type = "Withdrawal"
        /\ ~transactions[last'.id].is_dispute
        /\ transactions[last'.id].account_id = last'.account_id
        /\ ~View(accounts, last'.account_id).locked
        /\ ~FGt(transactions[last'.id].amount,
                View(accounts, last'.account_id).available_balance))
            => LET c == last'.account_id
                   rec == transactions[last'.id]
                   old == View(accounts, c)
               IN  /\ last'.result = "Ok"
                   /\ accounts'[c] = AccDispute(old, rec.amount).acc
                   /\ accounts'[c].available_balance = FSub(old.available_balance, rec.amount)
                   /\ accounts'[c].held_balance = FAdd(old.held_balance, rec.amount)
                   /\ accounts'[c].total_balance = old.total_balance
                   /\ accounts'[c].locked = old.locked
                   /\ transactions'[last'.id].is_dispute]_vars

\* A Dispute held the positive amount of a recorded Withdrawal that had
\* failed and was never applied to the account.
C20_Witness ==
    /\ last.type = "Dispute"
    /\ last.result = "Ok"
    /\ transactions[last.id].type = "Withdrawal"
    /\ transactions[last.id].is_dispute
    /\ applied[last.id] = 0
    /\ FGt(transactions[last.id].amount, Zero)
    /\ accounts[last.account_id].held_balance = transactions[last.id].amount

\* C21: the amount field a Dispute, Resolve or Chargeback instruction carries
\* has no influence on any balance: whatever was processed before, two inputs
\* that continue with the same such instruction, alike but for that field,
\* and then with the same instructions, end with the same accounts.
C21_ReferenceAmountFieldIsIgnored ==
    pc = "running" =>
        \A i \in TxIds, t \in {"Dispute", "Resolve", "Chargeback"}, c \in ClientIds :
            \A a1 \in OptAmounts, a2 \in OptAmounts, rest \in Suffixes :
                LET run1 == process(accounts, transactions, <<Transaction(i, t, c, a1)>> \o rest)
                    run2 == process(accounts, transactions, <<Transaction(i, t, c, a2)>> \o rest)
                IN  (run1.pc = "running" /\ run2.pc = "running")
                        => \A o \in ClientIds :
                                View(run1.accounts, o) = View(run2.accounts, o)

\* The records flagged disputed whose stored client is c.
DisputedOf(c) ==
    {i \in LedgerIds : Recorded(i) /\ transactions[i].is_dispute
                                   /\ transactions[i].account_id = c}

\* The real number that is the sum of the amounts of the records ids.
RECURSIVE SumOfAmounts(_)
SumOfAmounts(ids) ==
    IF ids = {} THEN Zero
    ELSE LET i == CHOOSE j \in ids : TRUE
             rest == SumOfAmounts(ids \ {i})
         IN  F(transactions[i].amount.k + rest.k, transactions[i].amount.d + rest.d)

\* C22: the held balance of every account that is not locked, as stored or
\* at least as the program writes it, is the sum of the amounts of the
\* records flagged disputed that carry its client.
C22_HeldIsSumOfDisputedAmounts ==
    \A c \in ClientIds :
        (Exists(c) /\ ~accounts[c].locked)
            => \/ accounts[c].held_balance = SumOfAmounts(DisputedOf(c))
               \/ Serialize(accounts[c]).held = SumOfAmounts(DisputedOf(c))

\* C23: at most one Chargeback succeeds per account.  A Chargeback succeeds
\* only on an account that is not locked, locks it and leaves the record
\* flagged.  Once an account is locked, no step changes it (so what is held
\* for its other disputed records stays held), its disputed records stay
\* flagged, and a Resolve or Chargeback by its client, now or later, of any
\* id, fails with LockedAccount when it references one of those records and
\* is skipped otherwise, changing nothing.
C23_AtMostOneChargebackPerAccount ==
    /\ [](pc = "running" =>
            \A c \in ClientIds :
                (Exists(c) /\ accounts[c].locked) =>
                    \A i \in LedgerIds, t \in {"Resolve", "Chargeback"} :
                        LET r == Dispatch(accounts, transactions, Transaction(i, t, c, NoAmount))
                        IN  /\ r.result = IF i \in DisputedOf(c) THEN "LockedAccount" ELSE "Skipped"
                            /\ r.accounts = accounts
                            /\ r.transactions = transactions)
    /\ [][/\ (last'.type = "Chargeback" /\ last'.result = "Ok")
                => /\ ~View(accounts, last'.account_id).locked
                   /\ accounts'[last'.account_id].locked
                   /\ transactions'[last'.id].is_dispute
          /\ \A c \in ClientIds :
                (Exists(c) /\ accounts[c].locked)
                    => /\ accounts'[c] = accounts[c]
                       /\ \A i \in DisputedOf(c) : transactions'[i].is_dispute
                       /\ (last'.account_id = c /\ last'.type \in {"Resolve", "Chargeback"})
                            => last'.result = IF last'.id \in DisputedOf(c)
                                              THEN "LockedAccount" ELSE "Skipped"]_vars

\* After a Chargeback locked the account while a second record of the client
\* was flagged disputed, a Resolve of that record was refused: the record is
\* still flagged and its positive amount is what the account still holds.
C23_Witness ==
    /\ last.type = "Resolve"
    /\ last.result = "LockedAccount"
    /\ accounts[last.account_id].locked
    /\ last.id \in DisputedOf(last.account_id)
    /\ DisputedOf(last.account_id) # {last.id}
    /\ FGt(transactions[last.id].amount, Zero)
    /\ accounts[last.account_id].held_balance = transactions[last.id].amount

\* C24: the step of an instruction of client c changes the balances and lock
\* flag of no account but c's, and the disputed flag of no record whose
\* stored client is not c.
C24_OnlyTheInstructionsClientIsTouched ==
    [][/\ \A o \in ClientIds \ {last'.account_id} : View(accounts', o) = View(accounts, o)
       /\ \A i \in LedgerIds :
            (Recorded(i) /\ transactions[i].account_id # last'.account_id)
                => transactions'[i].is_dispute = transactions[i].is_dispute]_vars

\* An instruction of one client has succeeded while the other client's
\* account holds a positive amount for a record flagged disputed.
C24_Witness ==
    /\ last.result = "Ok"
    /\ FGt(accounts[last.account_id].total_balance, Zero)
    /\ \E o \in ClientIds \ {last.account_id} :
            /\ Exists(o)
            /\ FGt(accounts[o].held_balance, Zero)
            /\ DisputedOf(o) # {}

====
